---- MODULE Spec2Model ----
(***************************************************************************)
(* Model of server.js: the POST /upload-cv handler (skill extraction, the  *)
(* fan-out of one call per (skill, source), the per-skill allSettled       *)
(* barrier, the url-keyed deduplication, the date sort and the response),  *)
(* with its helpers escapeRegex, parseDate and isRecent.                   *)
(*                                                                         *)
(* JavaScript strings that the code inspects character by character (the   *)
(* resume text, skill terms, titles, tags) are sequences of one-character  *)
(* strings.  Strings the code only tests for truthiness and copies         *)
(* (company, location, url) are TLA+ strings.                              *)
(***************************************************************************)
EXTENDS Integers, Sequences, FiniteSets, TLC

VARIABLES pc, extractedText, uniqueSkills, calls, tasks, jobs, sent, probe,
          requests, reqs, lists

vars == <<pc, extractedText, uniqueSkills, calls, tasks, jobs, sent, probe,
          requests, reqs, lists>>

(***************************************************************************)
(* Bounds of the model.                                                    *)
(***************************************************************************)
\* longest resume text, in pieces, fed to the skill matcher on its own
MaxPieces == 3
\* most items in one source response body of a pipeline run
MaxItems == 1
\* most items in one source response body when an adapter is run on its own
MaxBody == 2

\* postings-to-be handed to the aggregation tail on its own
MaxList == 3

(***************************************************************************)
(* Characters.                                                             *)
(***************************************************************************)
UpperCase == <<"A","B","C","D","E","F","G","H","I","J","K","L","M",
               "N","O","P","Q","R","S","T","U","V","W","X","Y","Z">>

LowerCase == <<"a","b","c","d","e","f","g","h","i","j","k","l","m",
               "n","o","p","q","r","s","t","u","v","w","x","y","z">>

Digits == {"0","1","2","3","4","5","6","7","8","9"}

\* the class \w of a RegExp without the u flag: [A-Za-z0-9_]
IsWordChar(c) ==
    \/ \E i \in 1..26 : c = UpperCase[i] \/ c = LowerCase[i]
    \/ c \in Digits
    \/ c = "_"

\* String.prototype.toLowerCase on one (ASCII) character
LowerChar(c) ==
    IF \E i \in 1..26 : c = UpperCase[i]
    THEN LowerCase[CHOOSE i \in 1..26 : c = UpperCase[i]]
    ELSE c

toLowerCase(s) == [i \in 1..Len(s) |-> LowerChar(s[i])]

\* String.prototype.includes: needle occurs in hay as a substring
includes(hay, needle) ==
    \E i \in 0..(Len(hay) - Len(needle)) :
        \A k \in 1..Len(needle) : hay[i + k] = needle[k]

(***************************************************************************)
(* The skill vocabulary, in the order of the source.                       *)
(***************************************************************************)
SKILLS == <<
    <<"J","a","v","a">>,
    <<"P","y","t","h","o","n">>,
    <<"J","a","v","a","S","c","r","i","p","t">>,
    <<"R","e","a","c","t">>,
    <<"N","o","d","e">>,
    <<"S","Q","L">>,
    <<"C","+","+">>,
    <<"C","#">>,
    <<"A","W","S">>,
    <<"A","z","u","r","e">>,
    <<"G","C","P">>,
    <<"H","T","M","L">>,
    <<"C","S","S">>,
    <<"D","o","c","k","e","r">>,
    <<"K","u","b","e","r","n","e","t","e","s">>,
    <<"L","i","n","u","x">>,
    <<"G","i","t">>,
    <<"S","p","r","i","n","g">>,
    <<"D","j","a","n","g","o">>,
    <<"F","l","a","s","k">>,
    <<"M","o","n","g","o","D","B">>,
    <<"P","o","s","t","g","r","e","S","Q","L">>,
    <<"M","y","S","Q","L">>,
    <<"N","o","S","Q","L">>,
    <<"M","a","c","h","i","n","e"," ","L","e","a","r","n","i","n","g">>,
    <<"A","I">>,
    <<"D","a","t","a"," ","S","c","i","e","n","c","e">>,
    <<"D","e","e","p"," ","L","e","a","r","n","i","n","g">>,
    <<"T","e","n","s","o","r","F","l","o","w">>,
    <<"P","y","T","o","r","c","h">>,
    <<"P","o","w","e","r","B","I">>,
    <<"T","a","b","l","e","a","u">>,
    <<"D","e","v","O","p","s">>,
    <<"J","e","n","k","i","n","s">>,
    <<"C","I","/","C","D">>,
    <<"M","i","c","r","o","s","e","r","v","i","c","e","s">>,
    <<"A","n","g","u","l","a","r">>,
    <<"V","u","e">>,
    <<"T","y","p","e","S","c","r","i","p","t">>,
    <<"P","H","P">>,
    <<"R","u","b","y">>,
    <<"G","o">>,
    <<"S","w","i","f","t">>,
    <<"O","b","j","e","c","t","i","v","e","-","C">>,
    <<"E","C">>,
    <<"E","E","E">>
>>

(***************************************************************************)
(* escapeRegex and the RegExp built from a skill term.                     *)
(***************************************************************************)
\* the characters of the class [.*+?^${}()|[\]\\]
RegexSpecial == {".", "*", "+", "?", "^", "$", "{", "}", "(", ")", "|", "[", "]", "\\"}

\* str.replace(/[.*+?^${}()|[\]\\]/g, "\\$&"): a backslash before each special
RECURSIVE escapeRegex(_)
escapeRegex(str) ==
    IF str = <<>> THEN <<>>
    ELSE (IF Head(str) \in RegexSpecial THEN <<"\\", Head(str)>> ELSE <<Head(str)>>)
         \o escapeRegex(Tail(str))

\* the pattern text `\\b${escapeRegex(skill)}\\b`
PatternSource(skill) == <<"\\", "b">> \o escapeRegex(skill) \o <<"\\", "b">>

\* new RegExp(source, "i"): \b is the word-boundary assertion, a backslash
\* before any other character and a plain character are that literal
\* character (escapeRegex leaves no special character unescaped)
RECURSIVE Compile(_)
Compile(source) ==
    IF source = <<>> THEN <<>>
    ELSE IF Head(source) = "\\" /\ Len(source) >= 2
         THEN (IF source[2] = "b"
               THEN <<[kind |-> "boundary", ch |-> ""]>>
               ELSE <<[kind |-> "literal", ch |-> source[2]]>>)
              \o Compile(SubSeq(source, 3, Len(source)))
         ELSE <<[kind |-> "literal", ch |-> Head(source)]>> \o Compile(Tail(source))

\* \b at offset pos (between text[pos] and text[pos+1]): exactly one of the
\* two neighbours is a word character; outside the text counts as non-word
AtBoundary(text, pos) ==
    LET before == pos >= 1 /\ IsWordChar(text[pos])
        after == pos < Len(text) /\ IsWordChar(text[pos + 1])
    IN before # after

\* the atoms from index i on match the text starting at offset pos
RECURSIVE MatchFrom(_, _, _, _)
MatchFrom(atoms, i, text, pos) ==
    IF i > Len(atoms) THEN TRUE
    ELSE IF atoms[i].kind = "boundary"
         THEN AtBoundary(text, pos) /\ MatchFrom(atoms, i + 1, text, pos)
         ELSE /\ pos < Len(text)
              /\ LowerChar(text[pos + 1]) = LowerChar(atoms[i].ch)
              /\ MatchFrom(atoms, i + 1, text, pos + 1)

\* RegExp.prototype.test: the pattern matches at some offset
RegExpTest(atoms, text) == \E pos \in 0..Len(text) : MatchFrom(atoms, 1, text, pos)

RECURSIVE FilterSkills(_, _)
FilterSkills(vocabulary, text) ==
    IF vocabulary = <<>> THEN <<>>
    ELSE (IF RegExpTest(Compile(PatternSource(Head(vocabulary))), text)
          THEN <<Head(vocabulary)>> ELSE <<>>)
         \o FilterSkills(Tail(vocabulary), text)

\* SKILLS.filter(skill => new RegExp(...).test(extractedText))
MatchSkills(text) == FilterSkills(SKILLS, text)

(***************************************************************************)
(* JavaScript values of the source items.  A field is undefined or a       *)
(* string; a text field's string is a sequence of characters.              *)
(***************************************************************************)
UndefinedText == [t |-> "undefined", s |-> <<>>]
Text(s) == [t |-> "string", s |-> s]
UndefinedString == [t |-> "undefined", s |-> ""]
String(s) == [t |-> "string", s |-> s]

\* truthiness of a text field and of a string field: defined and not empty
TruthyText(v) == v.t = "string" /\ v.s # <<>>
TruthyString(v) == v.t = "string" /\ v.s # ""

\* job.tags: undefined, or an array of tag texts
UndefinedTags == [t |-> "undefined", a |-> <<>>]
Tags(a) == [t |-> "array", a |-> a]

(***************************************************************************)
(* Dates.  A date field is undefined, the empty string, a string that is   *)
(* no date, or an ISO-8601 timestamp: the wall-clock time `wall` (in ms    *)
(* since the model's epoch) written with the zone offset `off` (in hours), *)
(* which denotes the instant wall - off hours.                             *)
(***************************************************************************)
MsPerHour == 1000 * 60 * 60
MsPerDay == 1000 * 60 * 60 * 24

UndefinedDate == [form |-> "undefined", wall |-> 0, off |-> 0]
EmptyDate == [form |-> "empty", wall |-> 0, off |-> 0]
NotADate == [form |-> "text", wall |-> 0, off |-> 0]
IsoDate(wall, off) == [form |-> "iso", wall |-> wall, off |-> off]

TruthyDate(d) == d.form \in {"text", "iso"}

\* a Date, or null
Null == [isNull |-> TRUE, ms |-> 0]
DateOf(ms) == [isNull |-> FALSE, ms |-> ms]

\* ToNumber of parseDate's result: null is 0, a Date is its time value
ToNumber(d) == IF d.isNull THEN 0 ELSE d.ms

\* parseDate: null for a falsy argument and for an invalid Date
parseDate(dateStr) ==
    IF ~TruthyDate(dateStr) THEN Null
    ELSE IF dateStr.form = "iso"
         THEN DateOf(dateStr.wall - dateStr.off * MsPerHour)
         ELSE Null

\* the default of isRecent's parameter days
DefaultDays == 7

\* variant of isRecent: a date that does not parse counts as recent
isRecent_NullIsRecent(dateStr, now, days) ==
    LET postDate == parseDate(dateStr)
    IN IF postDate.isNull THEN TRUE
       ELSE (now - postDate.ms) <= days * MsPerDay

\* variant of isRecent: diffDays rounded down to whole days
isRecent_WholeDays(dateStr, now, days) ==
    LET postDate == parseDate(dateStr)
    IN IF postDate.isNull THEN FALSE
       ELSE ((now - postDate.ms) \div MsPerDay) <= days

\* isRecent, with `now` the value new Date() gives at the call.  diffDays is
\* the quotient (now - postDate) / MsPerDay, kept as numerator and
\* denominator; diffDays <= days compares it with days exactly.
isRecent(dateStr, now, days) ==
    LET postDate == parseDate(dateStr)
    IN IF postDate.isNull THEN FALSE
       ELSE LET diffDays == [num |-> now - postDate.ms, den |-> MsPerDay]
            IN diffDays.num <= days * diffDays.den

(***************************************************************************)
(* The four source adapters: the .then callback of each axios.get.         *)
(***************************************************************************)
Arbeitnow == 1
TheMuse == 2
RemoteOK == 3
Remotive == 4
Sources == 1..4

NoTitle == <<"N","o"," ","t","i","t","l","e">>

Fulfilled(value) == [state |-> "fulfilled", value |-> value]
Rejected == [state |-> "rejected", value |-> <<>>]
Pending == [state |-> "pending", value |-> <<>>]

\* the filter callback throws a TypeError: toLowerCase of an undefined title
\* (Arbeitnow and Remotive: job.title, The Muse: job.name)
FilterThrows(src, job) == src # RemoteOK /\ job.title.t = "undefined"

\* the skill part of the filter callback (evaluated before isRecent)
MentionsSkill(src, skill, job) ==
    LET needle == toLowerCase(skill)
    IN CASE src = Arbeitnow ->
              \/ includes(toLowerCase(job.title.s), needle)
              \/ /\ job.tags.t = "array"
                 /\ \E i \in 1..Len(job.tags.a) : includes(toLowerCase(job.tags.a[i]), needle)
         [] src = RemoteOK ->
              TruthyText(job.title) /\ includes(toLowerCase(job.title.s), needle)
         [] OTHER ->
              \/ includes(toLowerCase(job.title.s), needle)
              \/ TruthyText(job.extra) /\ includes(toLowerCase(job.extra.s), needle)

\* variant of Keeps: the recency check left out
Keeps_AnyDate(src, skill, job, now) == MentionsSkill(src, skill, job)

\* the filter callback on one item, `now` being the clock at its isRecent call
Keeps(src, skill, job, now) ==
    MentionsSkill(src, skill, job) /\ isRecent(job.date, now, DefaultDays)

\* variant of ToPosting: the url placeholder differs from source to source
ToPosting_PlaceholderPerSource(src, skill, job) ==
    [title |-> IF src \in {Arbeitnow, Remotive}
               THEN (IF TruthyText(job.title) THEN job.title.s ELSE NoTitle)
               ELSE job.title.s,
     company |-> IF TruthyString(job.company) THEN job.company.s ELSE "Unknown",
     location |-> IF TruthyString(job.location) THEN job.location.s ELSE "Remote",
     url |-> IF TruthyString(job.url) THEN job.url.s
             ELSE IF src = RemoteOK THEN "#" ELSE "#0",
     date |-> IF TruthyDate(job.date) THEN job.date ELSE EmptyDate,
     skill |-> skill]

\* the map callback
ToPosting(src, skill, job) ==
    [title |-> IF src \in {Arbeitnow, Remotive}
               THEN (IF TruthyText(job.title) THEN job.title.s ELSE NoTitle)
               ELSE job.title.s,
     company |-> IF TruthyString(job.company) THEN job.company.s ELSE "Unknown",
     location |-> IF TruthyString(job.location) THEN job.location.s ELSE "Remote",
     url |-> IF TruthyString(job.url) THEN job.url.s ELSE "#",
     date |-> IF TruthyDate(job.date) THEN job.date ELSE EmptyDate,
     skill |-> skill]

RECURSIVE FilterMap(_, _, _, _, _)
FilterMap(src, skill, body, nows, i) ==
    IF i > Len(body) THEN <<>>
    ELSE (IF Keeps(src, skill, body[i], nows[i])
          THEN <<ToPosting(src, skill, body[i])>> ELSE <<>>)
         \o FilterMap(src, skill, body, nows, i + 1)

\* the callback on a response body: rejected when the filter throws on an
\* item, else fulfilled with the postings of the items kept
Adapter(src, skill, body, nows) ==
    IF \E i \in 1..Len(body) : FilterThrows(src, body[i])
    THEN Rejected
    ELSE Fulfilled(FilterMap(src, skill, body, nows, 1))

\* one outbound call: axios.get rejects (network error, timeout, non-2xx
\* status), or resolves and the callback runs on the body
SourceCall(src, skill, transport, body, nows) ==
    IF transport = "error" THEN Rejected ELSE Adapter(src, skill, body, nows)


(***************************************************************************)
(* Promise combinators.  A promise is pending, fulfilled or rejected.      *)
(***************************************************************************)
\* variant of AllSettled: Promise.all in its place, rejected on the first rejection
AllSettled_ShortCircuit(results) ==
    IF \E i \in 1..Len(results) : results[i].state = "rejected" THEN "rejected"
    ELSE IF \A i \in 1..Len(results) : results[i].state = "fulfilled" THEN "fulfilled"
    ELSE "pending"

\* variant of AllSettled: rejected when no input was fulfilled
AllSettled_RejectsWhenAllFail(results) ==
    IF \E i \in 1..Len(results) : results[i].state = "pending" THEN "pending"
    ELSE IF \A i \in 1..Len(results) : results[i].state = "rejected" THEN "rejected"
    ELSE "fulfilled"

\* variant of AllSettled: stays pending unless every input is fulfilled
AllSettled_WaitsForSuccess(results) ==
    IF \A i \in 1..Len(results) : results[i].state = "fulfilled"
    THEN "fulfilled" ELSE "pending"

\* Promise.allSettled: pending until every input has settled, never rejected
AllSettled(results) ==
    IF \A i \in 1..Len(results) : results[i].state # "pending"
    THEN "fulfilled" ELSE "pending"

\* variant of PromiseAll: the handler goes on without awaiting
PromiseAll_NotAwaited(states) == "fulfilled"

\* variant of PromiseAll: fulfilled as soon as one input is
PromiseAll_Any(states) ==
    IF \E i \in 1..Len(states) : states[i] = "fulfilled" THEN "fulfilled"
    ELSE IF \A i \in 1..Len(states) : states[i] = "rejected" THEN "rejected"
    ELSE "pending"

\* Promise.all: rejected as soon as one input is, fulfilled when all are
PromiseAll(states) ==
    IF \E i \in 1..Len(states) : states[i] = "rejected" THEN "rejected"
    ELSE IF \A i \in 1..Len(states) : states[i] = "fulfilled" THEN "fulfilled"
    ELSE "pending"

\* variant of PushFulfilled: stops at the first result that is not fulfilled
RECURSIVE PushFulfilled_UntilRejected(_, _)
PushFulfilled_UntilRejected(list, results) ==
    IF results = <<>> THEN list
    ELSE IF Head(results).state # "fulfilled" THEN list
    ELSE PushFulfilled_UntilRejected(list \o Head(results).value, Tail(results))

\* results.forEach: the values of the fulfilled results, in index order
RECURSIVE PushFulfilled(_, _)
PushFulfilled(list, results) ==
    IF results = <<>> THEN list
    ELSE PushFulfilled(
            IF Head(results).state = "fulfilled" THEN list \o Head(results).value ELSE list,
            Tail(results))

(***************************************************************************)
(* Deduplication by url and the sort by date.                              *)
(***************************************************************************)
\* variant of MapSet: a key already present keeps its first value
MapSet_KeepFirst(entries, key, value) ==
    IF \E i \in 1..Len(entries) : entries[i].key = key
    THEN entries
    ELSE Append(entries, [key |-> key, value |-> value])

\* Map.prototype.set on the entries in insertion order: a key already
\* present keeps its place and takes the new value
MapSet(entries, key, value) ==
    IF \E i \in 1..Len(entries) : entries[i].key = key
    THEN [i \in 1..Len(entries) |->
            IF entries[i].key = key THEN [key |-> key, value |-> value] ELSE entries[i]]
    ELSE Append(entries, [key |-> key, value |-> value])

\* new Map(list.map(job => [job.url, job]))
RECURSIVE NewMap(_, _)
NewMap(entries, list) ==
    IF list = <<>> THEN entries
    ELSE NewMap(MapSet(entries, Head(list).url, Head(list)), Tail(list))

\* variant of Dedupe: the values taken from the last key to the first
Dedupe_Reversed(list) ==
    LET entries == NewMap(<<>>, list)
    IN [i \in 1..Len(entries) |-> entries[Len(entries) + 1 - i].value]

\* variant of Dedupe: no deduplication
Dedupe_Identity(list) == list

\* Array.from(new Map(...).values())
Dedupe(list) ==
    LET entries == NewMap(<<>>, list)
    IN [i \in 1..Len(entries) |-> entries[i].value]

\* variant of Compare: operands swapped
Compare_Ascending(a, b) == ToNumber(parseDate(a.date)) - ToNumber(parseDate(b.date))

\* the comparator (a, b) => parseDate(b.date) - parseDate(a.date)
Compare(a, b) == ToNumber(parseDate(b.date)) - ToNumber(parseDate(a.date))

\* e placed after the last element of the sorted list that must not follow it
Insert(sorted, e) ==
    LET after == { i \in 1..Len(sorted) : Compare(sorted[i], e) <= 0 }
        k == IF after = {} THEN 0 ELSE CHOOSE i \in after : \A j \in after : j <= i
    IN SubSeq(sorted, 1, k) \o <<e>> \o SubSeq(sorted, k + 1, Len(sorted))

\* Array.prototype.sort (stable) with Compare
RECURSIVE SortInto(_, _)
SortInto(sorted, list) ==
    IF list = <<>> THEN sorted ELSE SortInto(Insert(sorted, Head(list)), Tail(list))

Sort(list) == SortInto(<<>>, list)


(***************************************************************************)
(* The environment of a run: the resumes pdf-parse may yield, the clock    *)
(* readings, and what each job board may return.                           *)
(***************************************************************************)
\* an instant of the run, in ms since the model's epoch
Now0 == 8 * MsPerDay

\* what new Date() may read at an isRecent call
Nows == {Now0, Now0 + 1}

\* "" (pdfData.text missing), "I know JavaScript", "SQL and Java"
Resumes == {
    <<>>,
    <<"I"," ","k","n","o","w"," ","J","a","v","a","S","c","r","i","p","t">>,
    <<"S","Q","L"," ","a","n","d"," ","J","a","v","a">> }

Item(title, tags, extra, date, company, location, url) ==
    [title |-> title, tags |-> tags, extra |-> extra, date |-> date,
     company |-> company, location |-> location, url |-> url]

\* Arbeitnow: a posting three days old; an item without title
ArbeitnowJob ==
    Item(Text(<<"J","a","v","a"," ","S","Q","L"," ","d","e","v">>), Tags(<<<<"j","a","v","a","s","c","r","i","p","t">>>>), UndefinedText,
         IsoDate(Now0 - 3 * MsPerDay, 0), String("Acme"), String("Berlin"),
         String("https://jobs.example/1"))
ArbeitnowUntitled ==
    Item(UndefinedText, UndefinedTags, UndefinedText,
         IsoDate(Now0 - MsPerDay, 0), String("Acme"), String("Berlin"),
         String("https://jobs.example/9"))

\* The Muse: a posting one day old, its date written with offset +02:00, no
\* company and no locations; a posting ten days old
MuseJob ==
    Item(Text(<<"B","a","c","k","e","n","d">>), UndefinedTags, Text(<<"j","a","v","a"," ","a","n","d"," ","s","q","l">>),
         IsoDate(Now0 - MsPerDay + 2 * MsPerHour, 2), UndefinedString, UndefinedString,
         String("https://jobs.example/2"))
MuseStale ==
    Item(Text(<<"J","a","v","a"," ","S","Q","L">>), UndefinedTags, UndefinedText,
         IsoDate(Now0 - 10 * MsPerDay, 0), String("Initech"), String("Austin"),
         String("https://jobs.example/3"))

\* RemoteOK: a posting two days old without url; an item without position
RemoteOKJob ==
    Item(Text(<<"S","Q","L"," ","J","a","v","a">>), UndefinedTags, UndefinedText,
         IsoDate(Now0 - 2 * MsPerDay, 0), String("Globex"), UndefinedString,
         UndefinedString)
RemoteOKUntitled ==
    Item(UndefinedText, UndefinedTags, UndefinedText,
         IsoDate(Now0 - MsPerDay, 0), String("Globex"), UndefinedString,
         String("https://jobs.example/4"))

\* Remotive: the Arbeitnow posting's url again, posted an hour ago; an item
\* whose date is no date
RemotiveJob ==
    Item(Text(<<"J","a","v","a","S","c","r","i","p","t",","," ","J","a","v","a",","," ","S","Q","L">>), UndefinedTags, Text(<<"S","o","f","t","w","a","r","e">>),
         IsoDate(Now0 - MsPerHour, 0), String("Acme Corp"), String("Worldwide"),
         String("https://jobs.example/1"))
RemotiveUndated ==
    Item(Text(<<"J","a","v","a"," ","S","Q","L">>), UndefinedTags, UndefinedText,
         NotADate, String("Hooli"), String("Worldwide"),
         String("https://jobs.example/5"))

Catalogue(src) ==
    CASE src = Arbeitnow -> {ArbeitnowJob, ArbeitnowUntitled}
      [] src = TheMuse -> {MuseJob, MuseStale}
      [] src = RemoteOK -> {RemoteOKJob, RemoteOKUntitled}
      [] OTHER -> {RemotiveJob, RemotiveUndated}

SeqsUpTo(S, n) == UNION { [1..k -> S] : k \in 0..n }

\* the response bodies a source may return in a pipeline run
Bodies(src) == SeqsUpTo(Catalogue(src), MaxItems)

(***************************************************************************)
(* The POST /upload-cv handler.                                            *)
(*   pc: "received" (request in), "parsing" (awaiting pdfParse),           *)
(*       "fetching" (awaiting Promise.all), "responded".                   *)
(*   calls[k][src]: the promise of the call for uniqueSkills[k] to src.    *)
(*   tasks[k]: the promise of fetchJobsForSkill(uniqueSkills[k]).          *)
(*   jobs: the working list.  sent: the responses written to res.          *)
(*   requests: the outbound calls issued so far, in order.                 *)
(*   reqs, lists: the locals and the working lists of two requests served  *)
(*   at once (used by SpecPair only).                                      *)
(***************************************************************************)
NoProbe == [used |-> FALSE]

Response(status, skills, list) == [status |-> status, skills |-> skills, jobs |-> list]

Init ==
    /\ pc = "received"
    /\ extractedText = <<>>
    /\ uniqueSkills = <<>>
    /\ calls = <<>>
    /\ tasks = <<>>
    /\ jobs = <<>>
    /\ sent = <<>>
    /\ probe = NoProbe
    /\ requests = <<>>
    /\ reqs = <<>>
    /\ lists = <<>>

\* line 67: no file in the request
NoFile ==
    /\ pc = "received"
    /\ sent' = Append(sent, Response(400, <<>>, <<>>))
    /\ pc' = "responded"
    /\ UNCHANGED <<extractedText, uniqueSkills, calls, tasks, jobs, probe>>
    /\ UNCHANGED <<requests, reqs, lists>>

\* lines 70-71: the file is read and pdfParse is awaited
StartParse ==
    /\ pc = "received"
    /\ pc' = "parsing"
    /\ UNCHANGED <<extractedText, uniqueSkills, calls, tasks, jobs, sent, probe>>
    /\ UNCHANGED <<requests, reqs, lists>>

\* lines 179-182: the catch block
Catch ==
    /\ sent' = Append(sent, Response(500, <<>>, <<>>))
    /\ pc' = "responded"

\* readFileSync throws, pdfParse rejects or unlinkSync throws
ParseFails ==
    /\ pc \in {"received", "parsing"}
    /\ Catch
    /\ UNCHANGED <<extractedText, uniqueSkills, calls, tasks, jobs, probe>>
    /\ UNCHANGED <<requests, reqs, lists>>

\* variant of StartCalls: the first request pasted over the second
StartCalls_ArbeitnowTwice(skill) ==
    <<[skill |-> skill, src |-> Arbeitnow], [skill |-> skill, src |-> Arbeitnow],
      [skill |-> skill, src |-> RemoteOK], [skill |-> skill, src |-> Remotive]>>

\* the axios.get calls one fetchJobsForSkill(skill) issues, in array order
StartCalls(skill) ==
    <<[skill |-> skill, src |-> Arbeitnow], [skill |-> skill, src |-> TheMuse],
      [skill |-> skill, src |-> RemoteOK], [skill |-> skill, src |-> Remotive]>>

\* uniqueSkills.map(skill => fetchJobsForSkill(skill)): the calls issued
RECURSIVE StartAll(_)
StartAll(skills) ==
    IF skills = <<>> THEN <<>> ELSE StartCalls(Head(skills)) \o StartAll(Tail(skills))

\* lines 72-168, run without interruption once pdfParse has resolved: the
\* skills are extracted and the four calls of every skill are started
FanOut ==
    /\ pc = "parsing"
    /\ \E text \in Resumes :
         /\ extractedText' = text
         /\ uniqueSkills' = MatchSkills(text)
         /\ calls' = [k \in 1..Len(MatchSkills(text)) |-> [src \in Sources |-> Pending]]
         /\ tasks' = [k \in 1..Len(MatchSkills(text)) |-> "pending"]
         /\ requests' = StartAll(MatchSkills(text))
    /\ jobs' = <<>>
    /\ pc' = "fetching"
    /\ UNCHANGED <<sent, probe>>
    /\ UNCHANGED <<reqs, lists>>

\* the skills some resume of the run yields
ResumeSkills == UNION { { MatchSkills(text)[i] : i \in 1..Len(MatchSkills(text)) } : text \in Resumes }

\* how a call to src for skill may settle: axios.get fails, or it resolves
\* with some body and the callback runs on it, reading the clock per item
CallOutcomes(src, skill) ==
    {SourceCall(src, skill, "error", <<>>, <<>>)}
    \cup UNION { { SourceCall(src, skill, "ok", body, nows) : nows \in [1..Len(body) -> Nows] }
                 : body \in Bodies(src) }

SettledAs == [src \in Sources |-> [skill \in ResumeSkills |-> CallOutcomes(src, skill)]]

\* one call settles
Settle(k, src) ==
    /\ calls[k][src].state = "pending"
    /\ \E outcome \in SettledAs[src][uniqueSkills[k]] :
         calls' = [calls EXCEPT ![k][src] = outcome]
    /\ UNCHANGED <<pc, extractedText, uniqueSkills, tasks, jobs, sent, probe>>
    /\ UNCHANGED <<requests, reqs, lists>>

\* lines 162-165: fetchJobsForSkill resumes after its Promise.allSettled
Collect(k) ==
    /\ tasks[k] = "pending"
    /\ AllSettled(calls[k]) # "pending"
    /\ IF AllSettled(calls[k]) = "fulfilled"
       THEN /\ jobs' = PushFulfilled(jobs, calls[k])
            /\ tasks' = [tasks EXCEPT ![k] = "fulfilled"]
       ELSE /\ tasks' = [tasks EXCEPT ![k] = "rejected"]
            /\ UNCHANGED jobs
    /\ UNCHANGED <<pc, extractedText, uniqueSkills, calls, sent, probe>>
    /\ UNCHANGED <<requests, reqs, lists>>

\* lines 171-174
Rank(list) == Sort(Dedupe(list))

\* lines 168-182: the handler resumes after await Promise.all
Respond ==
    /\ pc = "fetching"
    /\ PromiseAll(tasks) # "pending"
    /\ IF PromiseAll(tasks) = "fulfilled"
       THEN /\ sent' = Append(sent, Response(200, uniqueSkills, Rank(jobs)))
            /\ pc' = "responded"
       ELSE Catch
    /\ UNCHANGED <<extractedText, uniqueSkills, calls, tasks, jobs, probe>>
    /\ UNCHANGED <<requests, reqs, lists>>

Next ==
    \/ NoFile
    \/ StartParse
    \/ ParseFails
    \/ FanOut
    \/ \E k \in 1..Len(calls) : \E src \in Sources : Settle(k, src)
    \/ \E k \in 1..Len(tasks) : Collect(k)
    \/ Respond

Spec == Init /\ [][Next]_vars


\* the control part of Respond: of the steps of Next, exactly the Respond
\* steps take pc from "fetching" to "responded", and Respond is enabled
\* exactly when this is
Resume ==
    /\ pc = "fetching"
    /\ PromiseAll(tasks) # "pending"
    /\ pc' = "responded"

\* The continuations after Promise.allSettled and Promise.all are promise
\* reactions: the event loop runs them once their promise has settled.  No
\* fairness is assumed of Settle: a source may never answer.
SpecLive ==
    /\ Spec
    /\ WF_vars(\E k \in 1..Len(tasks) : Collect(k))
    /\ WF_pc(Resume)

(***************************************************************************)
(* One source call on its own: every source, skill, transport outcome,     *)
(* body of at most MaxBody items and clock reading per item.  probe holds  *)
(* the call's inputs and, once it has run, its outcome.                    *)
(***************************************************************************)
Dated(job, date) == [job EXCEPT !.date = date]

\* items of every shape the adapters distinguish, and the Arbeitnow posting
\* with each kind of date: missing, empty, no date, exactly seven days
\* before Now0 (written in UTC and with offset +01:00), a day ahead
ProbeItems == {
    ArbeitnowJob,
    ArbeitnowUntitled,
    MuseJob,
    MuseStale,
    Dated(ArbeitnowJob, UndefinedDate),
    Dated(ArbeitnowJob, EmptyDate),
    Dated(ArbeitnowJob, NotADate),
    Dated(ArbeitnowJob, IsoDate(Now0 - 7 * MsPerDay, 0)),
    Dated(ArbeitnowJob, IsoDate(Now0 - 7 * MsPerDay + MsPerHour, 1)),
    Dated(ArbeitnowJob, IsoDate(Now0 + MsPerDay, 0)) }

ProbeOf(src, skill, transport, body, nows) ==
    [used |-> FALSE, src |-> src, skill |-> skill, transport |-> transport,
     body |-> body, nows |-> nows, outcome |-> Pending]

InitAdapter ==
    /\ pc = "calling"
    /\ \E src \in Sources :
       \E skill \in ResumeSkills :
       \E transport \in {"ok", "error"} :
       \E body \in SeqsUpTo(ProbeItems, MaxBody) :
       \E nows \in [1..Len(body) -> Nows] :
         /\ transport = "error" => body = <<>>
         /\ probe = ProbeOf(src, skill, transport, body, nows)
    /\ extractedText = <<>>
    /\ uniqueSkills = <<>>
    /\ calls = <<>>
    /\ tasks = <<>>
    /\ jobs = <<>>
    /\ sent = <<>>
    /\ requests = <<>>
    /\ reqs = <<>>
    /\ lists = <<>>

\* the call settles
RunCall ==
    /\ pc = "calling"
    /\ probe' = [probe EXCEPT
                   !.used = TRUE,
                   !.outcome = SourceCall(probe.src, probe.skill, probe.transport,
                                          probe.body, probe.nows)]
    /\ pc' = "settled"
    /\ UNCHANGED <<extractedText, uniqueSkills, calls, tasks, jobs, sent>>
    /\ UNCHANGED <<requests, reqs, lists>>

NextAdapter == RunCall

SpecAdapter == InitAdapter /\ [][NextAdapter]_vars


(***************************************************************************)
(* The aggregation tail on its own: results.forEach, the deduplication and *)
(* the sort, run on the results of up to MaxList fulfilled calls of one    *)
(* item each.  probe holds the inputs and the deduplicated lists.          *)
(***************************************************************************)
\* The Muse: a posting whose name is the empty string, found by its
\* contents; a posting whose refs carry no landing_page
MuseNameless ==
    Item(Text(<<>>), UndefinedTags, Text(<<"j","a","v","a"," ","a","n","d"," ","s","q","l">>),
         IsoDate(Now0 - 2 * MsPerHour, 0), String("Initech"), String("Austin"),
         String("https://jobs.example/6"))
MuseUnlinked ==
    Item(Text(<<"J","a","v","a"," ","S","Q","L">>), UndefinedTags, UndefinedText,
         IsoDate(Now0 - MsPerDay, 0), String("Initech"), String("Austin"),
         UndefinedString)

\* a source and the one item its response body holds
TailInputs == {
    [src |-> Arbeitnow, job |-> ArbeitnowJob],
    [src |-> Remotive, job |-> RemotiveJob],
    [src |-> RemoteOK, job |-> RemoteOKJob],
    [src |-> TheMuse, job |-> MuseJob],
    [src |-> TheMuse, job |-> MuseUnlinked],
    [src |-> TheMuse, job |-> MuseNameless] }

InitTail ==
    /\ pc = "settled"
    /\ \E skill \in ResumeSkills :
       \E inputs \in SeqsUpTo(TailInputs, MaxList) :
         probe = [used |-> FALSE, skill |-> skill, inputs |-> inputs,
                  once |-> <<>>, twice |-> <<>>]
    /\ extractedText = <<>>
    /\ uniqueSkills = <<>>
    /\ calls = <<>>
    /\ tasks = <<>>
    /\ jobs = <<>>
    /\ sent = <<>>
    /\ requests = <<>>
    /\ reqs = <<>>
    /\ lists = <<>>

\* the settled results of the calls, each callback run at Now0
TailResults ==
    [i \in 1..Len(probe.inputs) |->
        Adapter(probe.inputs[i].src, probe.skill, <<probe.inputs[i].job>>, <<Now0>>)]

\* lines 162-165
PushAll ==
    /\ pc = "settled"
    /\ jobs' = PushFulfilled(<<>>, TailResults)
    /\ probe' = [probe EXCEPT !.used = TRUE]
    /\ pc' = "pushed"
    /\ UNCHANGED <<extractedText, uniqueSkills, calls, tasks, sent>>
    /\ UNCHANGED <<requests, reqs, lists>>

\* line 171
DedupeOnce ==
    /\ pc = "pushed"
    /\ probe' = [probe EXCEPT !.once = Dedupe(jobs)]
    /\ pc' = "deduped"
    /\ UNCHANGED <<extractedText, uniqueSkills, calls, tasks, jobs, sent>>
    /\ UNCHANGED <<requests, reqs, lists>>

\* line 171 applied to its own result
DedupeAgain ==
    /\ pc = "deduped"
    /\ probe' = [probe EXCEPT !.twice = Dedupe(probe.once)]
    /\ pc' = "rededuped"
    /\ UNCHANGED <<extractedText, uniqueSkills, calls, tasks, jobs, sent>>
    /\ UNCHANGED <<requests, reqs, lists>>

\* lines 174-177
SendRanked ==
    /\ pc = "rededuped"
    /\ sent' = Append(sent, Response(200, <<probe.skill>>, Sort(probe.once)))
    /\ pc' = "responded"
    /\ UNCHANGED <<extractedText, uniqueSkills, calls, tasks, jobs, probe>>
    /\ UNCHANGED <<requests, reqs, lists>>

NextTail ==
    \/ PushAll
    \/ DedupeOnce
    \/ DedupeAgain
    \/ SendRanked

SpecTail == InitTail /\ [][NextTail]_vars

(***************************************************************************)
(* Two requests in one process.  Each invocation of the handler has its    *)
(* own locals (reqs[r]) and its closure fetchJobsForSkill pushes to the    *)
(* binding of jobs it captured (lists[JobsOf(r)]).  The handler's          *)
(* synchronous segments run to completion; the requests interleave at the  *)
(* awaits.                                                                 *)
(***************************************************************************)
Requests == 1..2

\* the text pdf-parse yields for each request's resume
PairResume(r) ==
    IF r = 1 THEN <<"I"," ","k","n","o","w"," ","J","a","v","a","S","c","r","i","p","t">>
    ELSE <<"S","Q","L">>

\* lines 76-78 on each request's text
PairSkills == [r \in Requests |-> MatchSkills(PairResume(r))]

\* variant of JobsOf: one list declared at module level
JobsOf_ModuleLevel(r) == 1

\* let jobs = [] inside the handler: a list per invocation
JobsOf(r) == r

InitPair ==
    /\ reqs = [r \in Requests |->
                 [pc |-> "parsing", uniqueSkills |-> <<>>, calls |-> <<>>,
                  tasks |-> <<>>, sent |-> <<>>]]
    /\ lists = [r \in Requests |-> <<>>]
    /\ pc = "serving"
    /\ extractedText = <<>>
    /\ uniqueSkills = <<>>
    /\ calls = <<>>
    /\ tasks = <<>>
    /\ jobs = <<>>
    /\ sent = <<>>
    /\ probe = NoProbe
    /\ requests = <<>>

PairIdle == <<pc, extractedText, uniqueSkills, calls, tasks, jobs, sent, probe, requests>>

\* lines 72-168 for request r
FanOutOf(r) ==
    /\ reqs[r].pc = "parsing"
    /\ reqs' = [reqs EXCEPT ![r] =
                  [pc |-> "fetching",
                   uniqueSkills |-> PairSkills[r],
                   calls |-> [k \in 1..Len(PairSkills[r]) |->
                                [src \in Sources |-> Pending]],
                   tasks |-> [k \in 1..Len(PairSkills[r]) |-> "pending"],
                   sent |-> <<>>]]
    /\ lists' = [lists EXCEPT ![JobsOf(r)] = <<>>]
    /\ UNCHANGED PairIdle

\* one call of request r settles
SettleOf(r, k, src) ==
    /\ reqs[r].calls[k][src].state = "pending"
    /\ \E outcome \in SettledAs[src][reqs[r].uniqueSkills[k]] :
         reqs' = [reqs EXCEPT ![r].calls[k][src] = outcome]
    /\ UNCHANGED lists
    /\ UNCHANGED PairIdle

\* lines 162-165 for request r
CollectOf(r, k) ==
    /\ reqs[r].tasks[k] = "pending"
    /\ AllSettled(reqs[r].calls[k]) # "pending"
    /\ IF AllSettled(reqs[r].calls[k]) = "fulfilled"
       THEN /\ lists' = [lists EXCEPT ![JobsOf(r)] = PushFulfilled(@, reqs[r].calls[k])]
            /\ reqs' = [reqs EXCEPT ![r].tasks[k] = "fulfilled"]
       ELSE /\ reqs' = [reqs EXCEPT ![r].tasks[k] = "rejected"]
            /\ UNCHANGED lists
    /\ UNCHANGED PairIdle

\* lines 168-182 for request r
RespondOf(r) ==
    /\ reqs[r].pc = "fetching"
    /\ PromiseAll(reqs[r].tasks) # "pending"
    /\ reqs' = [reqs EXCEPT
                  ![r].pc = "responded",
                  ![r].sent =
                      IF PromiseAll(reqs[r].tasks) = "fulfilled"
                      THEN Append(@, Response(200, reqs[r].uniqueSkills,
                                              Rank(lists[JobsOf(r)])))
                      ELSE Append(@, Response(500, <<>>, <<>>))]
    /\ UNCHANGED lists
    /\ UNCHANGED PairIdle

NextPair ==
    \E r \in Requests :
        \/ FanOutOf(r)
        \/ \E k \in 1..Len(reqs[r].calls) : \E src \in Sources : SettleOf(r, k, src)
        \/ \E k \in 1..Len(reqs[r].tasks) : CollectOf(r, k)
        \/ RespondOf(r)

SpecPair == InitPair /\ [][NextPair]_vars

(***************************************************************************)
(* The skill matcher on its own: every text of at most MaxPieces pieces.   *)
(***************************************************************************)
Pieces == {
    <<"J","a","v","a">>,
    <<"j","a","v","a">>,
    <<"S","c","r","i","p","t">>,
    <<"S","Q","L">>,
    <<"C","+","+">>,
    <<"c","#">>,
    <<"x">>,
    <<" ">> }

RECURSIVE Flatten(_)
Flatten(ps) == IF ps = <<>> THEN <<>> ELSE Head(ps) \o Flatten(Tail(ps))

Texts == { Flatten(ps) : ps \in UNION { [1..n -> Pieces] : n \in 0..MaxPieces } }

InitMatch ==
    /\ pc = "parsed"
    /\ extractedText \in Texts
    /\ uniqueSkills = <<>>
    /\ calls = <<>>
    /\ tasks = <<>>
    /\ jobs = <<>>
    /\ sent = <<>>
    /\ probe = NoProbe
    /\ requests = <<>>
    /\ reqs = <<>>
    /\ lists = <<>>

\* lines 76-78 applied to the text
ExtractSkills ==
    /\ pc = "parsed"
    /\ uniqueSkills' = MatchSkills(extractedText)
    /\ pc' = "matched"
    /\ UNCHANGED <<extractedText, calls, tasks, jobs, sent, probe>>
    /\ UNCHANGED <<requests, reqs, lists>>

NextMatch == ExtractSkills

SpecMatch == InitMatch /\ [][NextMatch]_vars

(***************************************************************************)
(* Claims about one source call (checked under SpecAdapter).               *)
(***************************************************************************)
\* the item names the skill in its title or its secondary field, so that
\* only its date decides whether it is kept
NamesSkill(i) == MentionsSkill(probe.src, probe.skill, probe.body[i])

\* the item's date is missing, empty or no date
Undated(job) == job.date.form \in {"undefined", "empty", "text"}

\* the call got a body whose every item has the title the filter reads
CallbackRanClean ==
    /\ probe.transport = "ok"
    /\ \A i \in 1..Len(probe.body) :
          probe.src = RemoteOK \/ probe.body[i].title.t = "string"

\* C7: an item whose date is missing, empty or unparseable is left out of
\* the adapter's result, and leaving it out never fails the call: a call
\* whose transport succeeded on well-formed items is fulfilled, and no
\* posting of its value carries such a date.
C7_UndatedItemsExcludedWithoutFailure ==
    (pc = "settled" /\ CallbackRanClean) =>
        /\ probe.outcome.state = "fulfilled"
        /\ \A j \in 1..Len(probe.outcome.value) : probe.outcome.value[j].date.form = "iso"
        /\ Len(probe.outcome.value) <=
              Cardinality({ i \in 1..Len(probe.body) : ~Undated(probe.body[i]) })

\* an undated item that names the skill was dropped beside a posting kept
C7_Witness ==
    /\ pc = "settled"
    /\ CallbackRanClean
    /\ \E i \in 1..Len(probe.body) : Undated(probe.body[i]) /\ NamesSkill(i)
    /\ Len(probe.outcome.value) = 1

\* the window of seven days, in milliseconds
WindowMs == 7 * 24 * 60 * 60 * 1000

\* the item's date parses and lies at most seven days before the clock
\* reading of its check
WithinWindow(i) ==
    /\ probe.body[i].date.form = "iso"
    /\ probe.nows[i] - (probe.body[i].date.wall - probe.body[i].date.off * 3600000) <= WindowMs

\* C8: an item with a parseable date is recent exactly when now - date is
\* at most 7 days in milliseconds: the value of a fulfilled call holds the
\* postings of exactly the items that name the skill and lie in the window.
C8_RecentIffWithinSevenDaysOfMs ==
    (pc = "settled" /\ probe.outcome.state = "fulfilled") =>
        /\ Len(probe.outcome.value) =
              Cardinality({ i \in 1..Len(probe.body) : NamesSkill(i) /\ WithinWindow(i) })
        /\ \A i \in 1..Len(probe.body) :
              (NamesSkill(i) /\ WithinWindow(i)) =>
                  \E j \in 1..Len(probe.outcome.value) :
                      probe.outcome.value[j].date = probe.body[i].date

\* the posting dated exactly seven days before Now0 is kept when checked at
\* Now0 and dropped when checked one millisecond later
C8_Witness ==
    /\ pc = "settled"
    /\ probe.outcome.state = "fulfilled"
    /\ Len(probe.body) = 2
    /\ probe.body[1] = probe.body[2]
    /\ probe.body[1].date.form = "iso"
    /\ probe.nows[1] - (probe.body[1].date.wall - probe.body[1].date.off * 3600000) = WindowMs
    /\ probe.nows[2] - (probe.body[2].date.wall - probe.body[2].date.off * 3600000) = WindowMs + 1
    /\ Len(probe.outcome.value) = 1

\* C13: a call whose transport succeeded is fulfilled whatever optional
\* fields (title, company, location) its items lack, and each posting of
\* its value carries a company and a location, the default where the item
\* had none.
C13_AbsentOptionalFieldsTolerated ==
    (pc = "settled" /\ probe.transport = "ok") =>
        /\ probe.outcome.state = "fulfilled"
        /\ \A j \in 1..Len(probe.outcome.value) :
              /\ probe.outcome.value[j].company # ""
              /\ probe.outcome.value[j].location # ""

(***************************************************************************)
(* Claims about the pipeline (checked under Spec).                         *)
(***************************************************************************)
Count(list, p) == Cardinality({ i \in 1..Len(list) : list[i] = p })

\* how often posting p occurs in the values of the fulfilled calls
RECURSIVE ReturnedCount(_, _)
ReturnedCount(k, p) ==
    IF k = 0 THEN 0
    ELSE ReturnedCount(k - 1, p)
         + (IF calls[k][1].state = "fulfilled" THEN Count(calls[k][1].value, p) ELSE 0)
         + (IF calls[k][2].state = "fulfilled" THEN Count(calls[k][2].value, p) ELSE 0)
         + (IF calls[k][3].state = "fulfilled" THEN Count(calls[k][3].value, p) ELSE 0)
         + (IF calls[k][4].state = "fulfilled" THEN Count(calls[k][4].value, p) ELSE 0)

ReturnedPostings ==
    UNION { { calls[k][src].value[i] : i \in 1..Len(calls[k][src].value) }
            : <<k, src>> \in (1..Len(calls)) \X Sources }

AllCallsSettled == \A k \in 1..Len(calls) : \A src \in Sources : calls[k][src].state # "pending"

SomeCallRejected == \E k \in 1..Len(calls) : \E src \in Sources : calls[k][src].state = "rejected"

Succeeded == pc = "responded" /\ Len(sent) >= 1 /\ sent[1].status = 200

\* C1: whatever calls fail, once calls were started the run ends in a result
\* set, and the working list handed to the deduplicator holds every posting
\* of every fulfilled call (as often as the calls returned it).
C1_FailureIsolation ==
    (pc = "responded" /\ Len(calls) > 0) =>
        /\ sent[1].status = 200
        /\ \A p \in ReturnedPostings : Count(jobs, p) = ReturnedCount(Len(calls), p)

\* a run that responded with a call rejected and another call's posting in
\* the working list
C1_Witness ==
    /\ Succeeded
    /\ SomeCallRejected
    /\ jobs # <<>>
    /\ \E k \in 1..Len(calls) : \E a, b \in Sources :
          /\ calls[k][a].state = "rejected"
          /\ calls[k][b].state = "fulfilled"
          /\ calls[k][b].value # <<>>

\* C2: deduplication, ranking and the response come only after every call
\* has settled, and a skill's results are collected only after its four
\* calls have settled, rejected calls included.
C2_SettleAllBarrier ==
    /\ sent # <<>> => AllCallsSettled
    /\ \A k \in 1..Len(tasks) :
          tasks[k] # "pending" => \A src \in Sources : calls[k][src].state # "pending"

\* a two-skill run that responded after a rejection
C2_Witness ==
    /\ pc = "responded"
    /\ Len(calls) = 2
    /\ calls[1][1].state = "rejected"
    /\ calls[2][4].state = "fulfilled"
    /\ AllCallsSettled

\* C3: no two postings of a successful response have the same url.
C3_ResponseUrlsUnique ==
    Succeeded =>
        \A i, j \in 1..Len(sent[1].jobs) :
            sent[1].jobs[i].url = sent[1].jobs[j].url => i = j

\* a response built from a working list in which a url occurs twice
C3_Witness ==
    /\ Succeeded
    /\ \E i, j \in 1..Len(jobs) : i # j /\ jobs[i].url = jobs[j].url
    /\ Len(sent[1].jobs) >= 2

\* C4: the caller receives one outcome, a result set or a failure, never
\* both, and a result set only once every skill's aggregation has finished:
\* it then carries the extracted skills and a posting for every url
\* returned.
C4_ExactlyOneOutcome ==
    /\ Len(sent) <= 1
    /\ pc = "responded" <=> Len(sent) = 1
    /\ \A n \in 1..Len(sent) :
          /\ sent[n].status \in {200, 400, 500}
          /\ sent[n].status = 200 =>
                /\ \A k \in 1..Len(tasks) : tasks[k] = "fulfilled"
                /\ AllCallsSettled
                /\ sent[n].skills = uniqueSkills
                /\ \A p \in ReturnedPostings :
                      \E i \in 1..Len(sent[n].jobs) : sent[n].jobs[i].url = p.url

\* a result set of two skills with postings
C4_Witness ==
    /\ Succeeded
    /\ Len(sent) = 1
    /\ Len(sent[1].skills) = 2
    /\ sent[1].jobs # <<>>

\* the instant a posting's date denotes
Instant(p) == p.date.wall - p.date.off * 3600000

\* C9: the jobs of a successful response are in descending order of parsed
\* date: no posting is older than the one after it.
C9_SortedByDateDescending ==
    Succeeded =>
        \A i \in 1..(Len(sent[1].jobs) - 1) :
            /\ sent[1].jobs[i].date.form = "iso"
            /\ sent[1].jobs[i + 1].date.form = "iso"
            /\ Instant(sent[1].jobs[i]) >= Instant(sent[1].jobs[i + 1])

\* three postings that the sort had to reorder, one dated with an offset
C9_Witness ==
    /\ Succeeded
    /\ Len(sent[1].jobs) = 3
    /\ Instant(jobs[1]) < Instant(jobs[2])
    /\ \E i \in 1..3 : sent[1].jobs[i].date.off # 0

\* the last posting of the list with the url
LastWithUrl(list, url) ==
    list[CHOOSE i \in 1..Len(list) :
            /\ list[i].url = url
            /\ \A j \in (i + 1)..Len(list) : list[j].url # url]

\* C10: of the postings of the working list that share a url, the response
\* keeps the one met last in the list, with all its fields.
C10_DedupLastWins ==
    Succeeded =>
        /\ \A i \in 1..Len(sent[1].jobs) :
              sent[1].jobs[i] = LastWithUrl(jobs, sent[1].jobs[i].url)
        /\ \A j \in 1..Len(jobs) :
              \E i \in 1..Len(sent[1].jobs) : sent[1].jobs[i].url = jobs[j].url

\* the first posting of the list is superseded by a later, different one
C10_Witness ==
    /\ Succeeded
    /\ Len(jobs) >= 2
    /\ \E j \in 2..Len(jobs) : jobs[j].url = jobs[1].url
    /\ LastWithUrl(jobs, jobs[1].url) # jobs[1]
    /\ LastWithUrl(jobs, jobs[1].url).skill # jobs[1].skill


\* how often the pair (skill, src) occurs in the log of outbound calls
CountRequests(skill, src) ==
    Cardinality({ i \in 1..Len(requests) : requests[i] = [skill |-> skill, src |-> src] })

\* C12: in every state of a run, the outbound calls started number
\* |skills| x 4 and each (extracted skill, source) pair was called exactly
\* once; as this holds after calls have failed too, no call is ever retried.
C12_EachPairQueriedOnce ==
    /\ Len(requests) = 4 * Len(uniqueSkills)
    /\ \A k \in 1..Len(uniqueSkills) : \A src \in Sources :
          CountRequests(uniqueSkills[k], src) = 1

\* a run of two skills that ended after a call had failed, eight calls made
C12_Witness ==
    /\ Succeeded
    /\ Len(uniqueSkills) = 2
    /\ calls[1][Arbeitnow].state = "rejected"
    /\ Len(requests) = 8

\* the skills list the matcher yields for each text a run may extract
SkillsOf == [text \in Resumes |-> MatchSkills(text)]

\* C16: a run whose calls returned no posting at all (each failed, or was
\* left with nothing after filtering) still ends in a result set: status
\* 200, the extracted skills and an empty jobs list.
C16_SourceFailuresNotSurfaced ==
    (pc = "responded" /\ Len(calls) > 0 /\ ReturnedPostings = {}) =>
        sent = <<Response(200, SkillsOf[extractedText], <<>>)>>

\* every call of a two-skill run failed and the run ended in a result set
C16_Witness ==
    /\ pc = "responded"
    /\ Len(calls) = 2
    /\ \A k \in 1..2 : \A src \in Sources : calls[k][src].state = "rejected"
    /\ Len(sent) = 1
    /\ sent[1].jobs = <<>>
    /\ Len(sent[1].skills) = 2

Urls(list) == { list[i].url : i \in 1..Len(list) }

\* C18: the urls of the response's jobs list are the urls of the postings
\* the calls returned, and the skills list is that of the resume text: both
\* are fixed by the source responses, in whatever order the calls and the
\* per-skill tasks completed.
C18_UrlSetIndependentOfCompletionOrder ==
    Succeeded =>
        /\ Urls(sent[1].jobs) = { p.url : p \in ReturnedPostings }
        /\ sent[1].skills = SkillsOf[extractedText]

\* the second skill's task completed first: its posting precedes a posting
\* of the first skill with the same url in the working list, and the
\* response carries that url tagged with the first skill
C18_Witness ==
    /\ Succeeded
    /\ Len(uniqueSkills) = 2
    /\ Len(jobs) >= 2
    /\ jobs[1].skill = uniqueSkills[2]
    /\ \E j \in 2..Len(jobs) :
          /\ jobs[j].skill = uniqueSkills[1]
          /\ jobs[j].url = jobs[1].url
    /\ \E i \in 1..Len(sent[1].jobs) :
          /\ sent[1].jobs[i].url = jobs[1].url
          /\ sent[1].jobs[i].skill = uniqueSkills[1]

\* C19: every posting of the working list, and so every posting the sort
\* comparator is called on, carries a date that parses.
C19_RankedPostingsHaveParseableDates ==
    /\ \A i \in 1..Len(jobs) : ~parseDate(jobs[i].date).isNull
    /\ \A n \in 1..Len(sent) : \A i \in 1..Len(sent[n].jobs) :
          ~parseDate(sent[n].jobs[i].date).isNull

\* the comparator ran on two postings of different urls while a Remotive
\* call was fulfilled with nothing kept
C19_Witness ==
    /\ Succeeded
    /\ Len(sent[1].jobs) >= 2
    /\ \E k \in 1..Len(calls) :
          calls[k][Remotive].state = "fulfilled" /\ calls[k][Remotive].value = <<>>


SomeCallPending == \E k \in 1..Len(calls) : \E src \in Sources : calls[k][src].state = "pending"

\* C15: once every started call has settled the request gets its response,
\* and as long as a started call has not settled no response is sent.
C15_RespondsIffAllCallsSettle ==
    /\ (pc = "fetching" /\ AllCallsSettled) ~> (pc = "responded" /\ Len(sent) = 1)
    /\ [](SomeCallPending => sent = <<>>)

\* a two-skill run answered after its last call, a rejected one, settled
C15_Witness ==
    /\ pc = "responded"
    /\ Len(sent) = 1
    /\ Len(calls) = 2
    /\ AllCallsSettled
    /\ calls[2][Remotive].state = "rejected"
    /\ calls[1][TheMuse].state = "fulfilled"
    /\ calls[1][TheMuse].value # <<>>

(***************************************************************************)
(* Claims about the aggregation tail (checked under SpecTail).             *)
(***************************************************************************)
\* C11: deduplicating a deduplicated list changes nothing: the same
\* postings in the same order.
C11_DedupeIdempotent ==
    pc \in {"rededuped", "responded"} => probe.twice = probe.once

\* the first pass removed a posting and left at least two, which the
\* second pass kept in their order
C11_Witness ==
    /\ pc = "rededuped"
    /\ Len(probe.once) < Len(jobs)
    /\ Len(probe.once) >= 2
    /\ probe.twice = probe.once

\* C14: every posting of the response's jobs list has a non-empty title.
C14_ResponseTitlesNonEmpty ==
    pc = "responded" =>
        \A i \in 1..Len(sent[1].jobs) : sent[1].jobs[i].title # <<>>

\* the inputs whose item has no url and passes its adapter's filter
KeptWithoutUrl ==
    { i \in 1..Len(probe.inputs) :
        /\ ~TruthyString(probe.inputs[i].job.url)
        /\ Keeps(probe.inputs[i].src, probe.skill, probe.inputs[i].job, Now0) }

WithPlaceholderUrl(list) == { j \in 1..Len(list) : list[j].url = "#" }

\* C20: the postings of items without url all carry the url "#" in the
\* working list, and at most one posting with that url is in the response.
C20_UrlLessPostingsCollapse ==
    pc = "responded" =>
        /\ Cardinality(WithPlaceholderUrl(jobs)) = Cardinality(KeptWithoutUrl)
        /\ Cardinality(WithPlaceholderUrl(sent[1].jobs)) <= 1

\* two different items without url, of two sources, were kept and one
\* posting with the placeholder is in the response
C20_Witness ==
    /\ pc = "responded"
    /\ \E i \in KeptWithoutUrl : \E j \in KeptWithoutUrl :
          /\ probe.inputs[i].src # probe.inputs[j].src
          /\ probe.inputs[i].job # probe.inputs[j].job
    /\ Cardinality(WithPlaceholderUrl(sent[1].jobs)) = 1

(***************************************************************************)
(* Claims about two concurrent requests (checked under SpecPair).          *)
(***************************************************************************)
\* the postings the calls of request r returned
ReturnedTo(r) ==
    UNION { { reqs[r].calls[k][src].value[i] : i \in 1..Len(reqs[r].calls[k][src].value) }
            : <<k, src>> \in (1..Len(reqs[r].calls)) \X Sources }

SentJobs(r) ==
    UNION { { reqs[r].sent[n].jobs[i] : i \in 1..Len(reqs[r].sent[n].jobs) }
            : n \in 1..Len(reqs[r].sent) }

\* C17: however the calls of two requests interleave, the working list of
\* a request that is fetching and the response of each request hold only
\* postings returned by that request's own calls, and no posting returned
\* to the other request.
C17_RequestIsolation ==
    \A r \in Requests : \A q \in Requests \ {r} :
        /\ reqs[r].pc = "fetching" =>
              \A i \in 1..Len(lists[JobsOf(r)]) :
                  /\ lists[JobsOf(r)][i] \in ReturnedTo(r)
                  /\ lists[JobsOf(r)][i] \notin ReturnedTo(q)
        /\ SentJobs(r) \subseteq ReturnedTo(r)
        /\ SentJobs(r) \cap ReturnedTo(q) = {}

\* request 2 was answered with postings while request 1, started before
\* that, holds a returned posting and still waits for another call
C17_Witness ==
    /\ reqs[2].pc = "responded"
    /\ SentJobs(2) # {}
    /\ reqs[1].pc = "fetching"
    /\ ReturnedTo(1) # {}
    /\ \E src \in Sources : reqs[1].calls[1][src].state = "pending"

(***************************************************************************)
(* Claims about the skill matcher (checked under SpecMatch).               *)
(***************************************************************************)
\* position of a term in the vocabulary (0 when it is not a term of it)
VocabularyIndex(term) ==
    IF \E i \in 1..Len(SKILLS) : SKILLS[i] = term
    THEN CHOOSE i \in 1..Len(SKILLS) : SKILLS[i] = term
    ELSE 0

\* term occurs in text, compared without case, at offset i
OccursAt(term, text, i) ==
    /\ i + Len(term) <= Len(text)
    /\ \A k \in 1..Len(term) : LowerChar(text[i + k]) = LowerChar(term[k])

\* term occurs in text as a whole word: an occurrence that no word character
\* touches on either side
OccursAsWholeWord(term, text) ==
    \E i \in 0..Len(text) :
        /\ OccursAt(term, text, i)
        /\ (i = 0 \/ ~IsWordChar(text[i]))
        /\ (i + Len(term) = Len(text) \/ ~IsWordChar(text[i + Len(term) + 1]))

\* term occurs in text with a space right before it and right after it
OccursBetweenSpaces(term, text) ==
    \E i \in 1..Len(text) :
        /\ OccursAt(term, text, i)
        /\ text[i] = " "
        /\ i + Len(term) < Len(text)
        /\ text[i + Len(term) + 1] = " "

\* C5: the matcher's result holds only vocabulary terms that occur in the
\* text as a case-insensitive whole word, each at most once, in the
\* vocabulary's order.
C5_MatchOnlyWholeWordsInVocabularyOrder ==
    pc = "matched" =>
        /\ \A i \in 1..Len(uniqueSkills) :
              /\ VocabularyIndex(uniqueSkills[i]) > 0
              /\ OccursAsWholeWord(uniqueSkills[i], extractedText)
        /\ \A i, j \in 1..Len(uniqueSkills) :
              i < j => VocabularyIndex(uniqueSkills[i]) < VocabularyIndex(uniqueSkills[j])

\* the vocabulary terms that contain +, # or .
PunctuatedTerms ==
    { SKILLS[i] : i \in { n \in 1..Len(SKILLS) :
        \E k \in 1..Len(SKILLS[n]) : SKILLS[n][k] \in {"+", "#", "."} } }

\* C6: a vocabulary term containing +, # or . is extracted whenever it
\* appears in the text delimited by spaces (as C++ does in
\* "5 years of C++ experience").
C6_PunctuatedTermsMatchLiterally ==
    pc = "matched" =>
        \A term \in PunctuatedTerms :
            OccursBetweenSpaces(term, extractedText) =>
                \E i \in 1..Len(uniqueSkills) : uniqueSkills[i] = term

====
